---- MODULE Spec2Model ----
(***************************************************************************)
(* Model of the AUR helper `aur` (src/main.go, latest revision: lines      *)
(* 428-850).  One run of the program is one behaviour: the command line    *)
(* (operation, targets, flags) and the environment (remote registry,       *)
(* pacman's "aur" database, the cache directory, the repository archive)   *)
(* are chosen in Init; every step is one stage of the handler of the       *)
(* chosen operation.  External processes are modelled by their documented  *)
(* effect and a nondeterministic exit status.                              *)
(***************************************************************************)
EXTENDS Integers, Sequences, FiniteSets, TLC

VARIABLES
    argv,       \* os.Args[1:], each argument a sequence of characters
    argi,       \* parser: index of the next argument
    args,       \* parser: the arguments that do not begin with "-"
    op,         \* operation: "sync", "update", "remove", "clean" or "search"
    names,      \* requested package names, in order         (sync/update/remove)
    force,      \* --force                                          (parser)
    devel,      \* --devel                                          (parser)
    noedit,     \* --noedit                                         (parser)
    remote,     \* registry: package name -> published version
    results,    \* registry: the records it returns for the search term
    recipe,     \* upstream: build unit -> pkgname array of its recipe now
    vcs,        \* build unit -> version its pkgver() computes now
    installed,  \* pacman's "aur" database: package name -> version
    cache,      \* entries of pkgdest (~/.cache/aur)
    mirror,     \* build unit -> state of its checkout in pkgdest
    archive,    \* repository archive aur.db.tar.gz: package -> version
    pc,         \* position of the run
    exitCode,   \* -1 while running, else the process exit status
    msg,        \* what the run printed last (kind, names; a table's layout)
    pkgs,       \* prepare, search: the records fetched from the registry
    idx,        \* prepare: index of the next record to reconcile
    outdated,   \* prepare: the outdated set, in order
    seen,       \* history: every record as reconciled (Version, OldVersion)
    bases,      \* sync/update: build units not yet processed
    base,       \* sync/update: build unit being processed
    files,      \* clean: the entries os.ReadDir returned, in order
    garbage,    \* clean: names of the entries to delete, in order
    asked,      \* prompt: the question it put, the answer read, what it returns
    log,        \* history: external commands and prompts, in order
    done,       \* history: build unit -> archive entries right after its publish
    start,      \* history: cache, mirror, archive and installed at program start
    past        \* history: the earlier runs of the program, oldest first

vars == << argv, argi, args, op, names, force, devel, noedit, remote, results, recipe, vcs, installed, cache,
           mirror, archive, pc, exitCode, msg, pkgs, idx, outdated, seen, bases,
           base, files, garbage, asked, log, done, start, past >>

----------------------------------------------------------------------------
(* Bounds of the model *)

\* numeric versions are "1" .. "MaxVer"
MaxVer == 2
\* a sync command line names at most MaxNames packages
MaxNames == 3
\* the program is run at most MaxRuns times in a row
MaxRuns == 2
\* a search returns at most MaxResults records
MaxResults == 3
\* popularity scores are 1 .. MaxPop
MaxPop == 2
\* a command line has at most MaxArgs arguments
MaxArgs == 3

----------------------------------------------------------------------------
(* The package universe *)

\* packages the registry knows, and their build units (PackageBase)
Upstream == {"app", "lib-git", "libx-git"}
PackageBase(n) == IF n = "app" THEN "app" ELSE "lib-git"
Bases == {PackageBase(n) : n \in Upstream}
\* names a user may ask for that the registry does not know
Unknown == {"nada", "nope"}
AllNames == Upstream \cup Unknown

\* order of strings (Go's < on strings), as ranks
NameRank(n) ==
    CASE n = "app" -> 1 [] n = "aur.db.tar.gz" -> 2 [] n = "lib-git" -> 3
      [] n = "libx-git" -> 4 [] n = "nada" -> 5 [] n = "nope" -> 6
      [] n = "old" -> 7 [] OTHER -> 8

\* strings.HasSuffix(name, "-git")
HasSuffixGit(n) == n \in {"lib-git", "libx-git"}

\* pkgname array of a unit's PKGBUILD, in the order makepkg lists it, as
\* the unit was first published
PkgNames(b) == IF b = "app" THEN << "app" >> ELSE << "lib-git", "libx-git" >>
\* the arrays a later revision of the recipe may have: the same, or the
\* packages after the first dropped
Recipes(b) == {PkgNames(b), << PkgNames(b)[1] >>}

\* units whose PKGBUILD has a pkgver() function (version-control sources)
IsVCS(b) == b = "lib-git"

----------------------------------------------------------------------------
(* Version strings and libalpm's comparator *)

\* A version string is a sequence of segments, numeric or alphabetic
\* ("1" is <<Num(1)>>, "r" is <<Alpha>>, "" is <<>>).
Num(n) == [k |-> "n", v |-> n]
Alpha == [k |-> "a", v |-> 0]
Empty == << >>
Versions == {<< Num(n) >> : n \in 1..MaxVer} \cup {<< Alpha >>}

\* rpmvercmp of libalpm (behind alpm_pkg_vercmp), on separator-free version
\* strings without epoch and release: segments are compared pairwise, a
\* numeric segment is newer than an alphabetic one, and when one string
\* runs out a remaining alphabetic segment loses against the empty rest.
RECURSIVE rpmvercmp(_, _)
rpmvercmp(a, b) ==
    IF a = b THEN 0
    ELSE IF a # << >> /\ b # << >>
    THEN LET x == Head(a)
             y == Head(b)
         IN  IF x.k = "n" /\ y.k = "a" THEN 1
             ELSE IF x.k = "a" /\ y.k = "n" THEN -1
             ELSE IF x.v < y.v THEN -1
             ELSE IF x.v > y.v THEN 1
             ELSE rpmvercmp(Tail(a), Tail(b))
    ELSE \* one side ran out: a remaining alpha segment never beats
         \* the empty string
         IF (a = << >> /\ Head(b).k # "a") \/ (a # << >> /\ Head(a).k = "a")
         THEN -1 ELSE 1

\* C.alpm_pkg_vercmp(a, b)
vercmp(a, b) == rpmvercmp(a, b)

----------------------------------------------------------------------------
(* Cache directory, mirrors, archive *)

\* an entry of pkgdest: a directory (a mirror, named after its build unit)
\* or a file (an artifact "<pkg>-<ver>-<arch>.pkg.tar.zst", named by package
\* and version, or the archive's own files "aur.db.tar.gz", ...)
DirEntry(s) == [name |-> << s >>, dir |-> TRUE]
FileEntry(n, v) == [name |-> << n, v >>, dir |-> FALSE]
DbEntry == [name |-> << "aur.db.tar.gz" >>, dir |-> FALSE]

\* strings.HasPrefix(name, dbname+".")
HasPrefixDb(name) == name \in {<< "aur.db.tar.gz" >>, << "aur.files.tar.gz" >>}

\* os.Stat(filepath.Join(pkgdest, base)) succeeds
Exists(b) == \E e \in cache : e.name = << b >>
\* a command can run with its working directory in the mirror of b
IsMirror(b) == DirEntry(b) \in cache

\* a revision of a recipe: its pkgver and its pkgname array
Rev(v, ns) == [ver |-> v, names |-> ns]
NoRev == Rev(Empty, << >>)
NoMirror == [head |-> NoRev, fetchHead |-> NoRev, pkgver |-> Empty, dirty |-> FALSE]
\* the version of the recipe at the head of the unit's upstream repository
RecipeVer(b) == remote[recipe[b][1]]
\* the head of the unit's upstream repository
UpstreamHead(b) == Rev(RecipeVer(b), recipe[b])
\* the names the registry has a record for: the packages of the recipes
Known == UNION {{recipe[b][i] : i \in 1..Len(recipe[b])} : b \in Bases}

\* the entries of the archive for the packages of unit b
EntriesOf(arch, b) ==
    [n \in {m \in DOMAIN arch : PackageBase(m) = b} |-> arch[n]]

\* a sequence's elements
Range(s) == {s[i] : i \in 1..Len(s)}

\* the names of S as a sequence in ascending string order
RECURSIVE SortedNames(_)
SortedNames(S) ==
    IF S = {} THEN << >>
    ELSE LET m == CHOOSE x \in S : \A y \in S : NameRank(x) <= NameRank(y)
         IN  << m >> \o SortedNames(S \ {m})

----------------------------------------------------------------------------
(* The run *)

cmdline == << argv, argi, args >>
given == << cmdline, op, force, devel, noedit, remote, results, recipe, vcs,
           installed, start, past >>
inputs == << given, asked >>
disk == << cache, mirror, archive, done >>
prep == << pkgs, idx, outdated, seen >>
loop == << bases, base >>
sweep == << files, garbage >>

\* an external command, network call or prompt that was run for unit b, and
\* how it ended: the exit status of a command (0 success), the answer to a
\* prompt (0 yes, 1 no)
Ran(c, b, code) == [cmd |-> c, base |-> b, code |-> code]
Run(c, b) == Ran(c, b, 0)
\* the exit status of a command that succeeded or failed
St(ok) == IF ok THEN 0 ELSE 1
\* a command may succeed or fail; it fails when it cannot even start
Outcomes(canStart) == IF canStart THEN BOOLEAN ELSE {FALSE}
Count(c, b) ==
    Cardinality({i \in 1..Len(log) : log[i].cmd = c /\ log[i].base = b})

Say(k, ns) == [kind |-> k, names |-> ns]

\* log.Fatal(err): the process ends with status 1
Fatal ==
    /\ pc' = "exit"
    /\ exitCode' = 1
    /\ msg' = Say("error", {})

\* os.Exit(code), and the return of main
Exit(code) ==
    /\ pc' = "exit"
    /\ exitCode' = code

\* main: dispatch on the operation
Main ==
    /\ pc = "main"
    /\ pc' = CASE op = "sync" -> "prepare"
               [] op = "update" -> "names"
               [] op = "clean" -> "readdir"
               [] op = "search" -> "search"
               [] op = "remove" -> "repo-remove"
    /\ UNCHANGED << inputs, names, disk, prep, loop, sweep, exitCode, msg, log >>

\* update: the names of every package of pacman's "aur" database
UpdateNames ==
    /\ pc = "names"
    /\ names' = SortedNames(DOMAIN installed)
    /\ pc' = "prepare"
    /\ UNCHANGED << inputs, disk, prep, loop, sweep, exitCode, msg, log >>

\* the registry's answer to info?arg[]=...: one record per distinct
\* requested name it knows, unknown names silently omitted
Package(n) ==
    [Name |-> n, PackageBase |-> PackageBase(n), Version |-> remote[n],
     OldVersion |-> Empty]
Response(ns) ==
    LET found == SortedNames(Range(ns) \cap Known)
    IN  [i \in 1..Len(found) |-> Package(found[i])]

\* variant of NotFound that reports the first missing name only
NotFoundFirst(ns, res) ==
    LET nfs == Range(ns) \ {res[i].Name : i \in 1..Len(res)}
    IN  IF nfs = {} THEN {}
        ELSE {CHOOSE n \in nfs : \A m \in nfs : NameRank(n) <= NameRank(m)}

\* prepare: the requested names no fetched record carries
NotFound(ns, res) ==
    IF Len(ns) # Len(res)
    THEN Range(ns) \ {res[i].Name : i \in 1..Len(res)}
    ELSE {}

\* prepare, first part: fetch the records, reject unknown targets
Fetch ==
    /\ pc = "prepare"
    /\ \E ok \in BOOLEAN :
         /\ log' = Append(log, Ran("http-get", "", St(ok)))
         /\ IF ~ok
            THEN /\ Fatal
                 /\ UNCHANGED prep
            ELSE LET res == Response(names)
                     nfs == NotFound(names, res)
                 IN  IF nfs # {}
                     THEN /\ Exit(1)
                          /\ msg' = Say("target not found", nfs)
                          /\ UNCHANGED prep
                     ELSE /\ pkgs' = res
                          /\ idx' = 1
                          /\ outdated' = << >>
                          /\ seen' = << >>
                          /\ pc' = "lookup"
                          /\ UNCHANGED << exitCode, msg >>
    /\ UNCHANGED << inputs, names, disk, loop, sweep >>

\* makepkg --packagelist in the mirror of b: one line per package of the
\* unit, each naming the artifact of the recipe's current version
PackageList(m, b) ==
    [i \in 1..Len(m[b].head.names) |-> << m[b].head.names[i], m[b].pkgver >>]

\* VCSVersion: the map built from the output of makepkg --packagelist.  The
\* output is split on " " while its lines end in "\n", so the whole output
\* is one string and the regular expression (whose . matches no newline)
\* finds its leftmost match, in the first line
VersionMap(m, b) ==
    LET first == PackageList(m, b)[1]
    IN  [n \in {first[1]} |-> first[2]]

\* version[p.Name]: a missing key yields ""
MapGet(map, n) == IF n \in DOMAIN map THEN map[n] ELSE Empty

\* makepkg in the mirror of b: pkgver() of a version-control unit rewrites
\* pkgver in the PKGBUILD, and sources land in the mirror
Inspected(m, b) ==
    [m EXCEPT ![b] = [@ EXCEPT !.pkgver = IF IsVCS(b) THEN vcs[b] ELSE @,
                               !.dirty = TRUE]]

\* variant of NeedsVCS that does not look at the devel flag
NeedsVCSAlways(n, isInst) == isInst /\ HasSuffixGit(n)

\* prepare: is the record's version resolved from the sources
NeedsVCS(n, isInst) == isInst /\ devel /\ HasSuffixGit(n)

\* variants of IsOutdated: equal versions count as outdated; force is ignored
IsOutdatedOrEqual(p) == force \/ vercmp(p.Version, p.OldVersion) >= 0

IsOutdatedNoForce(p) == vercmp(p.Version, p.OldVersion) > 0

\* prepare: the staleness test
IsOutdated(p) == force \/ vercmp(p.Version, p.OldVersion) > 0

\* prepare, second part: one iteration of the loop over the records
Lookup ==
    /\ pc = "lookup"
    /\ idx <= Len(pkgs)
    /\ LET p == pkgs[idx]
           b == p.PackageBase
           isInst == p.Name \in DOMAIN installed
           old == IF isInst THEN installed[p.Name] ELSE Empty
       IN  IF NeedsVCS(p.Name, isInst)
           THEN \E st \in {"ok", "nobuild fails", "packagelist fails"} :
                  IF st = "nobuild fails" \/ ~IsMirror(b)
                  THEN /\ log' = Append(log, Ran("makepkg --nobuild", b, 1))
                       /\ Fatal
                       /\ UNCHANGED << mirror, prep >>
                  ELSE /\ mirror' = Inspected(mirror, b)
                       /\ log' = log \o << Run("makepkg --nobuild", b),
                                           Ran("makepkg --packagelist", b,
                                               St(st = "ok")) >>
                       /\ IF st = "packagelist fails"
                          THEN /\ Fatal
                               /\ UNCHANGED prep
                          ELSE LET q == [p EXCEPT
                                           !.Version = MapGet(VersionMap(mirror', b), p.Name),
                                           !.OldVersion = old]
                               IN  /\ outdated' = IF IsOutdated(q)
                                                  THEN Append(outdated, q)
                                                  ELSE outdated
                                   /\ seen' = Append(seen, q)
                                   /\ idx' = idx + 1
                                   /\ UNCHANGED << pkgs, pc, exitCode, msg >>
           ELSE LET q == [p EXCEPT !.OldVersion = old]
                IN  /\ outdated' = IF IsOutdated(q) THEN Append(outdated, q)
                                   ELSE outdated
                    /\ seen' = Append(seen, q)
                    /\ idx' = idx + 1
                    /\ UNCHANGED << pkgs, pc, exitCode, msg, mirror, log >>
    /\ UNCHANGED << inputs, names, cache, archive, done, loop, sweep >>

\* sort.Slice(outdated, by Name)
RECURSIVE SortByName(_)
SortByName(s) ==
    IF s = << >> THEN << >>
    ELSE LET i == CHOOSE j \in 1..Len(s) :
                    \A k \in 1..Len(s) : NameRank(s[j].Name) <= NameRank(s[k].Name)
         IN  << s[i] >> \o SortByName(SubSeq(s, 1, i - 1) \o SubSeq(s, i + 1, Len(s)))

\* len(v) of a version string: at least one character per segment
StrLen(v) == Len(v)

\* the largest of a set of naturals, 0 for the empty set
Max(S) == IF S = {} THEN 0 ELSE CHOOSE x \in S : \A y \in S : y <= x

\* variant of vlen that measures the new versions
vlenOfNew(ps) ==
    LET m == Max({StrLen(ps[i].Version) : i \in 1..Len(ps)})
    IN  IF m # 0 THEN Max({m, 11}) ELSE 0

\* prepare: vlen, the width of the old-version column: 0 when no package of
\* the outdated set has a local version, else at least that of the header
vlen(ps) ==
    LET m == Max({StrLen(ps[i].OldVersion) : i \in 1..Len(ps)})
    IN  IF m # 0 THEN Max({m, 11}) ELSE 0

\* prepare: the table: the header and one row per package, with the old
\* version column when vlen is not 0
Table(ps) ==
    [kind |-> "table",
     names |-> {ps[i].Name : i \in 1..Len(ps)},
     header |-> IF vlen(ps) # 0
                THEN << "Package", "Old Version", "New Version" >>
                ELSE << "Package", "New Version" >>,
     rows |-> [i \in 1..Len(ps) |->
                 IF vlen(ps) # 0
                 THEN << ps[i].Name, ps[i].OldVersion, ps[i].Version >>
                 ELSE << ps[i].Name, ps[i].Version >>]]

\* variant of NothingToDo that returns the empty set instead of exiting
NothingToDoReturns ==
    /\ msg' = Say("nothing to do", {})
    /\ pc' = "proceed"
    /\ UNCHANGED exitCode

\* prepare: the empty outdated set: "There is nothing to do", os.Exit(0)
NothingToDo ==
    /\ msg' = Say("nothing to do", {})
    /\ Exit(0)

\* prepare, last part: nothing to do, or the table and the return
Render ==
    /\ pc = "lookup"
    /\ idx > Len(pkgs)
    /\ IF Len(outdated) > 0
       THEN /\ outdated' = SortByName(outdated)
            /\ msg' = Table(outdated')
            /\ pc' = "proceed"
            /\ UNCHANGED exitCode
       ELSE /\ NothingToDo
            /\ UNCHANGED outdated
    /\ UNCHANGED << inputs, names, disk, pkgs, idx, seen, loop, sweep, log >>

\* the build units of the packages to process
BasesOf(ps) == {ps[i].PackageBase : i \in 1..Len(ps)}

\* variant of Units that keeps one key per package, not per build unit
UnitsPerPackage(ps) == [i \in 1..Len(ps) |-> ps[i].PackageBase]

\* sync/update: the keys of the map bases, one per build unit of ps
Units(ps) == SortedNames(BasesOf(ps))

\* the words fmt.Scanln may store: the first word of the line typed, ""
\* for an empty line or the end of the input
Words == {"", "y", "Y", "n", "N", "yes"}

\* variant of prompt in which an empty answer means no
promptDefaultNo(a) == a \in {"y", "Y"}

\* prompt: the switch on the answer
prompt(a) == a \in {"y", "Y", ""}

\* no prompt has returned a value its caller has yet to act on
NotAsked == [q |-> "", ans |-> "", yes |-> FALSE]

\* variant of EditAsks that ignores the noedit flag
EditAsksAlways == TRUE

\* editPKGBUILD: !noedit && ...: the prompt is reached only without the flag
EditAsks == ~noedit

\* the question the run has reached, "" when it has reached none
Question ==
    CASE pc = "proceed" -> "prompt proceed"
      [] pc = "edit" /\ EditAsks -> "prompt edit"
      [] pc = "show" -> "prompt diff"
      [] OTHER -> ""

\* prompt: print the question, read the answer, return
Prompt ==
    /\ Question # ""
    /\ asked = NotAsked
    /\ \E a \in Words : asked' = [q |-> Question, ans |-> a, yes |-> prompt(a)]
    /\ UNCHANGED << given, names, disk, prep, loop, sweep, pc, exitCode, msg, log >>

\* sync/update: the top-level confirmation
Proceed ==
    /\ pc = "proceed"
    /\ asked # NotAsked
    /\ asked' = NotAsked
    /\ log' = Append(log, Ran("prompt proceed", "", St(asked.yes)))
    /\ IF asked.yes
       THEN /\ bases' = Units(outdated)
            /\ pc' = "loop"
            /\ UNCHANGED exitCode
       ELSE /\ Exit(1)
            /\ UNCHANGED bases
    /\ UNCHANGED << given, names, disk, prep, base, sweep, msg >>

\* variants of FirstStep: every unit is fetched; no unit is
FirstStepFetch(o) == "fetch"

FirstStepClone(o) == "clone"

\* the first step of a unit's lifecycle: sync looks for the mirror, update
\* fetches into it
FirstStep(o) == IF o = "sync" THEN "clone" ELSE "fetch"

\* for base := range bases: the next key, in no particular order
NextBase ==
    /\ pc = "loop"
    /\ IF bases = << >>
       THEN /\ Exit(0)
            /\ UNCHANGED loop
       ELSE /\ \E i \in 1..Len(bases) :
                 /\ base' = bases[i]
                 /\ bases' = SubSeq(bases, 1, i - 1) \o SubSeq(bases, i + 1, Len(bases))
            /\ pc' = FirstStep(op)
            /\ UNCHANGED exitCode
    /\ UNCHANGED << inputs, names, disk, prep, sweep, msg, log >>

\* git clone: a fresh mirror at the head of the unit's upstream repository
Cloned(m, b) ==
    [m EXCEPT ![b] = [head |-> UpstreamHead(b), fetchHead |-> NoRev,
                      pkgver |-> RecipeVer(b), dirty |-> FALSE]]

\* sync: clone the unit unless its path exists
Clone ==
    /\ pc = "clone"
    /\ IF Exists(base)
       THEN /\ pc' = "edit"
            /\ UNCHANGED << cache, mirror, exitCode, msg, log >>
       ELSE \E ok \in BOOLEAN :
              /\ log' = Append(log, Ran("git clone", base, St(ok)))
              /\ IF ok
                 THEN /\ cache' = cache \cup {DirEntry(base)}
                      /\ mirror' = Cloned(mirror, base)
                      /\ pc' = "edit"
                      /\ UNCHANGED << exitCode, msg >>
                 ELSE /\ Fatal
                      /\ UNCHANGED << cache, mirror >>
    /\ UNCHANGED << inputs, names, archive, done, prep, loop, sweep >>

\* editPKGBUILD: the editor runs if the flag allows and the user agrees
EditPKGBUILD ==
    /\ pc = "edit"
    /\ IF EditAsks
       THEN /\ asked # NotAsked
            /\ asked' = NotAsked
            /\ IF asked.yes
               THEN \E ok \in BOOLEAN :
                      /\ log' = log \o << Run("prompt edit", base),
                                          Ran("vim", base, St(ok)) >>
                      /\ IF ok
                         THEN /\ pc' = "makepkg"
                              /\ UNCHANGED << exitCode, msg >>
                         ELSE Fatal
               ELSE /\ log' = Append(log, Ran("prompt edit", base, 1))
                    /\ pc' = "makepkg"
                    /\ UNCHANGED << exitCode, msg >>
       ELSE /\ pc' = "makepkg"
            /\ UNCHANGED << exitCode, msg, log, asked >>
    /\ UNCHANGED << given, names, disk, prep, loop, sweep >>

\* the artifacts makepkg writes to PKGDEST for unit b
Artifacts(m, b) ==
    {FileEntry(m[b].head.names[i], m[b].pkgver) : i \in 1..Len(m[b].head.names)}

\* variant of Makepkg in which a build that fails ends the unit, not the run
MakepkgContinues ==
    /\ pc = "makepkg"
    /\ \E ok \in Outcomes(IsMirror(base)) :
         /\ log' = Append(log, Ran("makepkg --force", base, St(ok)))
         /\ IF ok
            THEN /\ mirror' = Inspected(mirror, base)
                 /\ cache' = cache \cup Artifacts(mirror', base)
                 /\ pc' = "packagelist"
                 /\ UNCHANGED << exitCode, msg >>
            ELSE /\ pc' = "loop"
                 /\ UNCHANGED << cache, mirror, exitCode, msg >>
    /\ UNCHANGED << inputs, names, archive, done, prep, loop, sweep >>

\* build, first command: makepkg --force --syncdeps
Makepkg ==
    /\ pc = "makepkg"
    /\ \E ok \in Outcomes(IsMirror(base)) :
         /\ log' = Append(log, Ran("makepkg --force", base, St(ok)))
         /\ IF ok
            THEN /\ mirror' = Inspected(mirror, base)
                 /\ cache' = cache \cup Artifacts(mirror', base)
                 /\ pc' = "packagelist"
                 /\ UNCHANGED << exitCode, msg >>
            ELSE /\ Fatal
                 /\ UNCHANGED << cache, mirror >>
    /\ UNCHANGED << inputs, names, archive, done, prep, loop, sweep >>

\* build, second command: makepkg --packagelist
BuildPackageList ==
    /\ pc = "packagelist"
    /\ \E ok \in Outcomes(IsMirror(base)) :
         /\ log' = Append(log, Ran("makepkg --packagelist", base, St(ok)))
         /\ IF ok
            THEN /\ pc' = "repo-add"
                 /\ UNCHANGED << exitCode, msg >>
            ELSE Fatal
    /\ UNCHANGED << inputs, names, disk, prep, loop, sweep >>

\* variant of Added that writes a new archive holding the listed artifacts
AddedFresh(arch, list) ==
    LET new == {list[i][1] : i \in 1..Len(list)}
        ver(n) == (CHOOSE i \in 1..Len(list) : list[i][1] = n)
    IN  [n \in new |-> list[ver(n)][2]]

\* repo-add --remove: the archive after adding the listed artifacts
Added(arch, list) ==
    LET new == {list[i][1] : i \in 1..Len(list)}
        ver(n) == (CHOOSE i \in 1..Len(list) : list[i][1] = n)
    IN  [n \in DOMAIN arch \cup new |->
            IF n \in new THEN list[ver(n)][2] ELSE arch[n]]

\* variant of Superseded for repo-add without --remove: no file is deleted
SupersededNone(arch, list) == {}

\* repo-add --remove: the package files of the entries it replaces
Superseded(arch, list) ==
    {FileEntry(list[i][1], arch[list[i][1]]) :
        i \in {j \in 1..Len(list) :
                 list[j][1] \in DOMAIN arch /\ arch[list[j][1]] # list[j][2]}}

\* build, third command: repo-add --remove dbpath pkgs...
RepoAdd ==
    /\ pc = "repo-add"
    /\ \E ok \in BOOLEAN :
         /\ log' = Append(log, Ran("repo-add", base, St(ok)))
         /\ IF ok
            THEN LET list == PackageList(mirror, base)
                 IN  /\ archive' = Added(archive, list)
                     /\ cache' = (cache \ Superseded(archive, list)) \cup {DbEntry}
                     /\ done' = [done EXCEPT ![base] =
                                   [built |-> TRUE,
                                    entries |-> EntriesOf(archive', base)]]
                     /\ pc' = "loop"
                     /\ UNCHANGED << exitCode, msg >>
            ELSE /\ Fatal
                 /\ UNCHANGED << cache, archive, done >>
    /\ UNCHANGED << inputs, names, mirror, prep, loop, sweep >>

\* variant of GitFetch that clones the unit when its mirror is missing
GitFetchOrClone ==
    /\ pc = "fetch"
    /\ \E ok \in BOOLEAN :
         /\ log' = Append(log, Ran(IF IsMirror(base) THEN "git fetch" ELSE "git clone",
                                   base, St(ok)))
         /\ IF ok
            THEN /\ cache' = cache \cup {DirEntry(base)}
                 /\ mirror' = IF IsMirror(base)
                              THEN [mirror EXCEPT ![base].fetchHead = UpstreamHead(base)]
                              ELSE [Cloned(mirror, base) EXCEPT
                                       ![base].fetchHead = UpstreamHead(base)]
                 /\ pc' = "diff"
                 /\ UNCHANGED << exitCode, msg >>
            ELSE /\ Fatal
                 /\ UNCHANGED << cache, mirror >>
    /\ UNCHANGED << inputs, names, archive, done, prep, loop, sweep >>

\* update: git fetch --quiet
GitFetch ==
    /\ pc = "fetch"
    /\ \E ok \in Outcomes(IsMirror(base)) :
         /\ log' = Append(log, Ran("git fetch", base, St(ok)))
         /\ IF ok
            THEN /\ mirror' = [mirror EXCEPT ![base].fetchHead = UpstreamHead(base)]
                 /\ pc' = "diff"
                 /\ UNCHANGED << exitCode, msg >>
            ELSE /\ Fatal
                 /\ UNCHANGED mirror
    /\ UNCHANGED << inputs, names, cache, archive, done, prep, loop, sweep >>

\* exit statuses of git diff HEAD FETCH_HEAD --quiet: 0 same, 1 differs,
\* 128 when git itself fails
DiffCodes(m, b) == {IF m[b].head = m[b].fetchHead THEN 0 ELSE 1, 128}

\* variant of Differs that takes every failure of the diff-check for a
\* difference
DiffersOrFails(code) == code # 0

\* update: exit.ExitCode() == 1: the quiet diff-check reports a difference
Differs(code) == code = 1

\* update: the quiet diff-check; an exit status other than 1 is not looked at
DiffCheck ==
    /\ pc = "diff"
    /\ \E code \in DiffCodes(mirror, base) :
         /\ log' = Append(log, Ran("git diff --quiet", base, code))
         /\ pc' = IF Differs(code) THEN "show" ELSE "merge"
    /\ UNCHANGED << inputs, names, disk, prep, loop, sweep, exitCode, msg >>

\* update: the display of the diff, if the user agrees
ShowDiff ==
    /\ pc = "show"
    /\ asked # NotAsked
    /\ asked' = NotAsked
    /\ IF asked.yes
       THEN \E ok \in BOOLEAN :
              /\ log' = log \o << Run("prompt diff", base),
                                  Ran("git diff", base, St(ok)) >>
              /\ IF ok
                 THEN /\ pc' = "merge"
                      /\ UNCHANGED << exitCode, msg >>
                 ELSE Fatal
       ELSE /\ log' = Append(log, Ran("prompt diff", base, 1))
            /\ pc' = "merge"
            /\ UNCHANGED << exitCode, msg >>
    /\ UNCHANGED << given, names, disk, prep, loop, sweep >>

\* update: git merge --quiet
Merge ==
    /\ pc = "merge"
    /\ \E ok \in Outcomes(IsMirror(base)) :
         /\ log' = Append(log, Ran("git merge", base, St(ok)))
         /\ IF ok
            THEN /\ mirror' = [mirror EXCEPT ![base].head = mirror[base].fetchHead,
                                             ![base].pkgver = mirror[base].fetchHead.ver]
                 /\ pc' = "edit"
                 /\ UNCHANGED << exitCode, msg >>
            ELSE /\ Fatal
                 /\ UNCHANGED mirror
    /\ UNCHANGED << inputs, names, cache, archive, done, prep, loop, sweep >>

----------------------------------------------------------------------------
(* search *)

\* a record of a search response, as far as search reads it
Hit(n, pop, votes) == [Name |-> n, Popularity |-> pop, NumVotes |-> votes]

\* vote counts of the records
VoteCounts == {1, 2, 5}

\* the responses of the registry: up to MaxResults records in any order, the
\* i-th named i
SearchResults ==
    UNION {{[i \in 1..n |-> Hit(i, f[i][1], f[i][2])] :
              f \in [1..n -> (1..MaxPop) \X VoteCounts]} : n \in 0..MaxResults}

\* variant of less without the tie-break on votes
lessByPopularity(a, b) == a.Popularity < b.Popularity

\* search: the less function handed to sort.Slice
less(a, b) ==
    IF a.Popularity = b.Popularity
    THEN a.NumVotes < b.NumVotes
    ELSE a.Popularity < b.Popularity

\* the permutations of 1..n
Perms(n) ==
    {f \in [1..n -> 1..n] : \A i, j \in 1..n : i # j => f[i] # f[j]}

\* sort.Slice(s, less): the sort is not stable, so every arrangement of s
\* in which no record is less than one before it is a possible outcome
SortSlice(s) ==
    {[i \in 1..Len(s) |-> s[f[i]]] :
        f \in {g \in Perms(Len(s)) :
                 \A i, j \in 1..Len(s) : i < j => ~less(s[g[j]], s[g[i]])}}

\* search: get the records, sort them, print them in that order
Search ==
    /\ pc = "search"
    /\ \E ok \in BOOLEAN :
         /\ log' = Append(log, Ran("http-get", "", St(ok)))
         /\ IF ok
            THEN \E sorted \in SortSlice(results) :
                   /\ pkgs' = sorted
                   /\ msg' = Say("results", {sorted[i].Name : i \in 1..Len(sorted)})
                   /\ Exit(0)
            ELSE /\ Fatal
                 /\ UNCHANGED pkgs
    /\ UNCHANGED << inputs, names, disk, idx, outdated, seen, loop, sweep >>

----------------------------------------------------------------------------
(* clean *)

\* clean: the names to keep: base and artifact filename of every package of
\* pacman's "aur" database
Filenames(inst) ==
    {<< PackageBase(n) >> : n \in DOMAIN inst}
        \cup {<< n, inst[n] >> : n \in DOMAIN inst}

\* variant of Kept without the test for the archive's prefix
KeptNoDb(name) == name \in Filenames(installed)

\* clean: an entry is kept if its name is in the keep set or begins "aur."
Kept(name) == name \in Filenames(installed) \/ HasPrefixDb(name)

\* order of file names, as ranks: os.ReadDir sorts by file name
VerRank(v) ==
    IF v = Empty THEN 0 ELSE IF v[1].k = "n" THEN v[1].v ELSE MaxVer + 1
EntryRank(e) ==
    NameRank(e.name[1]) * (MaxVer + 3)
        + (IF Len(e.name) = 2 THEN 1 + VerRank(e.name[2]) ELSE 0)

RECURSIVE SortedEntries(_)
SortedEntries(S) ==
    IF S = {} THEN << >>
    ELSE LET m == CHOOSE x \in S : \A y \in S : EntryRank(x) <= EntryRank(y)
         IN  << m >> \o SortedEntries(S \ {m})

\* clean: os.ReadDir(pkgdest)
ReadDir ==
    /\ pc = "readdir"
    /\ \E ok \in BOOLEAN :
         IF ok
         THEN /\ files' = SortedEntries(cache)
              /\ garbage' = << >>
              /\ idx' = 1
              /\ pc' = "scan"
              /\ UNCHANGED << exitCode, msg >>
         ELSE /\ Fatal
              /\ UNCHANGED << files, garbage, idx >>
    /\ UNCHANGED << inputs, names, disk, pkgs, outdated, seen, loop, log >>

\* clean, first loop: one entry: clean a kept mirror, note garbage
Scan ==
    /\ pc = "scan"
    /\ idx <= Len(files)
    /\ LET e == files[idx]
       IN  IF Kept(e.name)
           THEN IF e.dir
                THEN \E ok \in BOOLEAN :
                       /\ log' = Append(log, Ran("git clean", e.name[1], St(ok)))
                       /\ IF ok
                          THEN /\ mirror' =
                                    IF e.name[1] \in Bases
                                    THEN [mirror EXCEPT ![e.name[1]].dirty = FALSE]
                                    ELSE mirror
                               /\ idx' = idx + 1
                               /\ UNCHANGED << pc, exitCode, msg >>
                          ELSE /\ Fatal
                               /\ UNCHANGED << mirror, idx >>
                       /\ UNCHANGED garbage
                ELSE /\ idx' = idx + 1
                     /\ UNCHANGED << garbage, mirror, pc, exitCode, msg, log >>
           ELSE /\ garbage' = Append(garbage, e.name)
                /\ idx' = idx + 1
                /\ UNCHANGED << mirror, pc, exitCode, msg, log >>
    /\ UNCHANGED << inputs, names, cache, archive, done, pkgs, outdated, seen, loop,
                    files >>

\* os.RemoveAll(filepath.Join(pkgdest, name))
Removed(c, name) == {e \in c : e.name # name}

\* variant of Remove that deletes the first garbage entry only
RemoveFirstOnly ==
    /\ pc = "scan"
    /\ idx > Len(files)
    /\ IF garbage = << >>
       THEN /\ Exit(0)
            /\ UNCHANGED << cache, mirror, garbage, msg >>
       ELSE /\ cache' = Removed(cache, Head(garbage))
            /\ mirror' = IF Head(garbage)[1] \in Bases /\ Len(Head(garbage)) = 1
                         THEN [mirror EXCEPT ![Head(garbage)[1]] = NoMirror]
                         ELSE mirror
            /\ garbage' = << >>
            /\ UNCHANGED << pc, exitCode, msg >>
    /\ UNCHANGED << inputs, names, archive, done, prep, loop, files, log >>

\* clean, second loop: delete one garbage entry; the return when none is left
Remove ==
    /\ pc = "scan"
    /\ idx > Len(files)
    /\ IF garbage = << >>
       THEN /\ Exit(0)
            /\ UNCHANGED << cache, mirror, garbage, msg >>
       ELSE \E ok \in BOOLEAN :
              IF ok
              THEN /\ cache' = Removed(cache, Head(garbage))
                   /\ mirror' = IF Head(garbage)[1] \in Bases /\ Len(Head(garbage)) = 1
                                THEN [mirror EXCEPT ![Head(garbage)[1]] = NoMirror]
                                ELSE mirror
                   /\ garbage' = Tail(garbage)
                   /\ UNCHANGED << pc, exitCode, msg >>
              ELSE /\ Fatal
                   /\ UNCHANGED << cache, mirror, garbage >>
    /\ UNCHANGED << inputs, names, archive, done, prep, loop, files, log >>

----------------------------------------------------------------------------
(* Initial states *)

\* the state of a mirror of b cloned when its recipe was at version v
MirrorAt(b, v) ==
    [head |-> Rev(v, PkgNames(b)), fetchHead |-> NoRev, pkgver |-> v,
     dirty |-> FALSE]

\* the partial functions from S to T
Partial(S, T) == UNION {[D -> T] : D \in SUBSET S}

\* the targets of sync: up to MaxNames distinct names in order, or one name
\* given twice
Targets ==
    {SortedNames(S) : S \in {T \in SUBSET AllNames : Cardinality(T) <= MaxNames}}
        \cup {<< n, n >> : n \in AllNames}

\* Everything but the environment and the command line is fixed by the
\* program's start-up; the archive starts in step with pacman's database,
\* with the artifact of every entry in the cache.  The run starts where
\* parser has returned; the command line itself is not kept.
InitRun ==
    /\ argv = << >>
    /\ argi = 1
    /\ args = << >>
    /\ archive = installed
    /\ \A b \in Bases : ~IsMirror(b) => mirror[b] = NoMirror
    /\ pc = "main"
    /\ exitCode = -1
    /\ msg = Say("", {})
    /\ pkgs = << >>
    /\ idx = 1
    /\ outdated = << >>
    /\ seen = << >>
    /\ bases = << >>
    /\ base = ""
    /\ files = << >>
    /\ garbage = << >>
    /\ asked = NotAsked
    /\ log = << >>
    /\ done = [b \in Bases |-> [built |-> FALSE, entries |-> EntriesOf(archive, b)]]
    /\ start = [cache |-> cache, mirror |-> mirror, archive |-> archive,
                installed |-> installed]
    /\ past = << >>

\* the cache of a given set of mirrors, the artifacts of inst and junk
CacheOf(ms, inst, junk) ==
    {DirEntry(b) : b \in ms} \cup {FileEntry(n, inst[n]) : n \in DOMAIN inst}
        \cup {DbEntry} \cup junk

\* runs that vary what reconciliation reads: versions in the registry, in
\* the sources and in pacman's database, under every force and devel flag,
\* for targets the registry knows
InitReconcile ==
    /\ op \in {"sync", "update", "clean"}
    /\ force \in BOOLEAN
    /\ devel \in BOOLEAN
    /\ noedit = TRUE
    /\ \E ra \in Versions :
         remote = [n \in Upstream |-> IF n = "app" THEN ra ELSE << Num(1) >>]
    /\ vcs \in [{"lib-git"} -> {<< Num(MaxVer) >>, << Alpha >>}]
    /\ installed \in Partial(Upstream, {<< Num(1) >>, << Alpha >>})
    /\ names \in IF op = "sync" THEN {SortedNames(S) : S \in SUBSET Upstream}
                ELSE {<< >>}
    /\ results = << >>
    /\ recipe = [b \in Bases |-> PkgNames(b)]
    /\ cache = CacheOf(Bases, installed, {})
    /\ mirror = [b \in Bases |-> MirrorAt(b, << Num(1) >>)]
    /\ InitRun

\* runs that vary what the orchestration reads: every flag, mirrors present
\* or not, at the upstream head or behind it, leftovers in the cache
InitOrchestrate ==
    /\ op \in {"sync", "update", "clean"}
    /\ force \in BOOLEAN
    /\ devel \in BOOLEAN
    /\ noedit \in BOOLEAN
    /\ remote = [n \in Upstream |-> IF n = "app" THEN << Num(MaxVer) >> ELSE << Num(1) >>]
    /\ vcs = [b \in {"lib-git"} |-> << Num(MaxVer) >>]
    /\ installed \in Partial(Upstream, {<< Num(1) >>})
    /\ names \in IF op = "sync" THEN Targets ELSE {<< >>}
    /\ results = << >>
    /\ recipe \in [Bases -> UNION {Recipes(b) : b \in Bases}]
    /\ \A b \in Bases : recipe[b] \in Recipes(b)
    /\ \E ms \in SUBSET Bases, junk \in SUBSET {DirEntry("old"), FileEntry("app", << Alpha >>)} :
         /\ op # "clean" => junk = {}
         /\ cache = CacheOf(ms, installed, junk)
         /\ mirror = [b \in Bases |-> IF b \in ms THEN MirrorAt(b, << Num(1) >>)
                                      ELSE NoMirror]
    /\ InitRun

\* runs of search, for every response of the registry
InitSearch ==
    /\ op = "search"
    /\ force = FALSE
    /\ devel = FALSE
    /\ noedit = FALSE
    /\ remote = [n \in Upstream |-> << Num(1) >>]
    /\ results \in SearchResults
    /\ recipe = [b \in Bases |-> PkgNames(b)]
    /\ vcs = [b \in {"lib-git"} |-> << Num(1) >>]
    /\ installed = << >>
    /\ names = << >>
    /\ cache = CacheOf({}, installed, {})
    /\ mirror = [b \in Bases |-> NoMirror]
    /\ InitRun

Init == InitReconcile \/ InitOrchestrate \/ InitSearch

Next ==
    \/ Main
    \/ UpdateNames
    \/ Fetch
    \/ Lookup
    \/ Render
    \/ Prompt
    \/ Proceed
    \/ NextBase
    \/ Clone
    \/ EditPKGBUILD
    \/ Makepkg
    \/ BuildPackageList
    \/ RepoAdd
    \/ GitFetch
    \/ DiffCheck
    \/ ShowDiff
    \/ Merge
    \/ ReadDir
    \/ Scan
    \/ Remove
    \/ Search

Spec == Init /\ [][Next]_vars

----------------------------------------------------------------------------
(* The sweep, run several times in a row *)

\* the same command line is run again, with nothing done in between: a new
\* process starts on the disk and the database the last one left
Again ==
    /\ pc = "exit"
    /\ Len(past) < MaxRuns - 1
    /\ past' = Append(past, [op |-> op, exitCode |-> exitCode,
                             cache |-> start.cache])
    /\ pc' = "main"
    /\ exitCode' = -1
    /\ msg' = Say("", {})
    /\ pkgs' = << >>
    /\ idx' = 1
    /\ outdated' = << >>
    /\ seen' = << >>
    /\ bases' = << >>
    /\ base' = ""
    /\ files' = << >>
    /\ garbage' = << >>
    /\ asked' = NotAsked
    /\ log' = << >>
    /\ done' = [b \in Bases |-> [built |-> FALSE, entries |-> EntriesOf(archive, b)]]
    /\ start' = [cache |-> cache, mirror |-> mirror, archive |-> archive,
                 installed |-> installed]
    /\ UNCHANGED << cmdline, op, names, force, devel, noedit, remote, results,
                    recipe, vcs, installed, cache, mirror, archive >>

InitSweep == Init /\ op = "clean"

NextSweep ==
    \/ Main
    \/ ReadDir
    \/ Scan
    \/ Remove
    \/ Again

SpecSweep == InitSweep /\ [][NextSweep]_vars

----------------------------------------------------------------------------
(* The argument parser *)

\* the characters of the words of a command line
Chars(w) ==
    CASE w = "devel" -> << "d", "e", "v", "e", "l" >>
      [] w = "force" -> << "f", "o", "r", "c", "e" >>
      [] w = "noedit" -> << "n", "o", "e", "d", "i", "t" >>
      [] w = "help" -> << "h", "e", "l", "p" >>
      [] w = "sync" -> << "s", "y", "n", "c" >>
      [] w = "app" -> << "a", "p", "p" >>
\* the option "--w"
Opt(w) == << "-", "-" >> \o Chars(w)
\* the string of an operation or a target
Text(a) == CHOOSE w \in {"sync", "app"} : Chars(w) = a

\* the arguments a command line is made of: the four options; an option
\* with one dash only, or with another character for the second dash, or
\* with three dashes; an unknown option; a single dash, a double dash; an
\* operation and a target
Arguments ==
    {Opt(w) : w \in {"devel", "force", "noedit", "help"}}
        \cup {<< "-" >> \o Chars("devel"), << "-", "x" >> \o Chars("force"),
              << "-" >> \o Opt("noedit"), << "-", "-", "b" >>,
              << "-" >>, << "-", "-" >>}
        \cup {Chars("sync"), Chars("app")}
CommandLines == UNION {[1..n -> Arguments] : n \in 0..MaxArgs}

\* strings.HasPrefix(a, "-")
HasPrefixDash(a) == Len(a) >= 1 /\ a[1] = "-"
\* a[2:], for an argument of two bytes or more
From2(a) == SubSeq(a, 3, Len(a))

\* parser: one iteration of the loop over os.Args[1:].  The index is
\* advanced past the argument also when the argument ends the process.
ParseArg ==
    /\ pc = "parser"
    /\ argi <= Len(argv)
    /\ argi' = argi + 1
    /\ LET a == argv[argi]
       IN  IF HasPrefixDash(a)
           THEN IF Len(a) < 2
                THEN \* a[2:] of a one-byte string: slice bounds out of
                     \* range, a run-time panic (exit status 2)
                     /\ Exit(2)
                     /\ msg' = Say("panic", {})
                     /\ UNCHANGED << force, devel, noedit, args >>
                ELSE CASE From2(a) = Chars("help") ->
                            /\ Exit(0)
                            /\ msg' = Say("usage", {})
                            /\ UNCHANGED << force, devel, noedit, args >>
                       [] From2(a) = Chars("devel") ->
                            /\ devel' = TRUE
                            /\ UNCHANGED << force, noedit, args, pc, exitCode, msg >>
                       [] From2(a) = Chars("force") ->
                            /\ force' = TRUE
                            /\ UNCHANGED << devel, noedit, args, pc, exitCode, msg >>
                       [] From2(a) = Chars("noedit") ->
                            /\ noedit' = TRUE
                            /\ UNCHANGED << force, devel, args, pc, exitCode, msg >>
                       [] OTHER ->
                            /\ Exit(1)
                            /\ msg' = Say("invalid option", {a})
                            /\ UNCHANGED << force, devel, noedit, args >>
           ELSE /\ args' = Append(args, a)
                /\ UNCHANGED << force, devel, noedit, pc, exitCode, msg >>
    /\ UNCHANGED << argv, op, names, remote, results, recipe, vcs, installed, start,
                    past, asked, disk, prep, loop, sweep, log >>

\* parser: after the loop: no operation, or the return of args[0], args[1:]
\* to main
ParseEnd ==
    /\ pc = "parser"
    /\ argi > Len(argv)
    /\ IF Len(args) < 1
       THEN /\ Exit(1)
            /\ msg' = Say("no operation specified", {})
            /\ UNCHANGED << op, names >>
       ELSE /\ op' = Text(args[1])
            /\ names' = [i \in 1..(Len(args) - 1) |-> Text(args[i + 1])]
            /\ pc' = "main"
            /\ UNCHANGED << exitCode, msg >>
    /\ UNCHANGED << cmdline, force, devel, noedit, remote, results, recipe, vcs,
                    installed, start, past, asked, disk, prep, loop, sweep, log >>

\* the program starts with a command line and the three flags unset
InitParser ==
    /\ argv \in CommandLines
    /\ argi = 1
    /\ args = << >>
    /\ op = ""
    /\ names = << >>
    /\ force = FALSE
    /\ devel = FALSE
    /\ noedit = FALSE
    /\ remote = [n \in Upstream |-> << Num(1) >>]
    /\ results = << >>
    /\ recipe = [b \in Bases |-> PkgNames(b)]
    /\ vcs = [b \in {"lib-git"} |-> << Num(1) >>]
    /\ installed = << >>
    /\ cache = CacheOf({}, installed, {})
    /\ mirror = [b \in Bases |-> NoMirror]
    /\ archive = installed
    /\ pc = "parser"
    /\ exitCode = -1
    /\ msg = Say("", {})
    /\ pkgs = << >>
    /\ idx = 1
    /\ outdated = << >>
    /\ seen = << >>
    /\ bases = << >>
    /\ base = ""
    /\ files = << >>
    /\ garbage = << >>
    /\ asked = NotAsked
    /\ log = << >>
    /\ done = [b \in Bases |-> [built |-> FALSE, entries |-> EntriesOf(archive, b)]]
    /\ start = [cache |-> cache, mirror |-> mirror, archive |-> archive,
                installed |-> installed]
    /\ past = << >>

NextParser ==
    \/ ParseArg
    \/ ParseEnd

SpecParser == InitParser /\ [][NextParser]_vars

----------------------------------------------------------------------------
(* remove, and a series of operations *)

\* repo-remove: the archive without the entries of the named packages
Dropped(arch, ns) == [n \in DOMAIN arch \ Range(ns) |-> arch[n]]

\* remove: repo-remove dbpath names...; it fails when a named package has no
\* entry, and then leaves the archive alone
RepoRemove ==
    /\ pc = "repo-remove"
    /\ \E ok \in Outcomes(names # << >> /\ Range(names) \subseteq DOMAIN archive) :
         /\ log' = Append(log, Ran("repo-remove", "", St(ok)))
         /\ IF ok
            THEN /\ archive' = Dropped(archive, names)
                 /\ Exit(0)
                 /\ UNCHANGED msg
            ELSE /\ Fatal
                 /\ UNCHANGED archive
    /\ UNCHANGED << inputs, names, cache, mirror, done, prep, loop, sweep >>

\* the operations of a series, and the targets of each
SeriesOps == {"sync", "update", "remove", "clean"}
SeriesTargets(o) ==
    IF o \in {"sync", "remove"}
    THEN {SortedNames(S) : S \in (SUBSET Upstream) \ {{}}}
    ELSE {<< >>}

\* after an operation that completed the program is started again, with any
\* operation; in between pacman may have refreshed its "aur" database from
\* the archive to install from it (the database changes in no other way)
Another ==
    /\ pc = "exit"
    /\ exitCode = 0
    /\ Len(past) < MaxRuns - 1
    /\ \E o \in SeriesOps, inst \in {installed, archive} :
         /\ op' = o
         /\ names' \in SeriesTargets(o)
         /\ installed' = inst
    /\ past' = Append(past, [op |-> op, exitCode |-> exitCode,
                             cache |-> start.cache])
    /\ pc' = "main"
    /\ exitCode' = -1
    /\ msg' = Say("", {})
    /\ pkgs' = << >>
    /\ idx' = 1
    /\ outdated' = << >>
    /\ seen' = << >>
    /\ bases' = << >>
    /\ base' = ""
    /\ files' = << >>
    /\ garbage' = << >>
    /\ asked' = NotAsked
    /\ log' = << >>
    /\ done' = [b \in Bases |-> [built |-> FALSE, entries |-> EntriesOf(archive, b)]]
    /\ start' = [cache |-> cache, mirror |-> mirror, archive |-> archive,
                 installed |-> installed']
    /\ UNCHANGED << cmdline, force, devel, noedit, remote, results, recipe, vcs,
                    cache, mirror, archive >>

\* the first operation of a series: on a cache with the mirrors and the
\* artifacts of the packages of pacman's database, the archive in step
InitSeries ==
    /\ op \in SeriesOps
    /\ force = FALSE
    /\ devel = FALSE
    /\ noedit = TRUE
    /\ remote = [n \in Upstream |-> IF n = "app" THEN << Num(MaxVer) >> ELSE << Num(1) >>]
    /\ vcs = [b \in {"lib-git"} |-> << Num(MaxVer) >>]
    /\ installed \in Partial(Upstream, {<< Num(1) >>})
    /\ names \in SeriesTargets(op)
    /\ results = << >>
    /\ recipe = [b \in Bases |-> PkgNames(b)]
    /\ cache = CacheOf({PackageBase(n) : n \in DOMAIN installed}, installed, {})
    /\ mirror = [b \in Bases |-> IF IsMirror(b) THEN MirrorAt(b, << Num(1) >>)
                                 ELSE NoMirror]
    /\ InitRun

NextSeries ==
    \/ Main
    \/ UpdateNames
    \/ Fetch
    \/ Lookup
    \/ Render
    \/ Prompt
    \/ Proceed
    \/ NextBase
    \/ Clone
    \/ EditPKGBUILD
    \/ Makepkg
    \/ BuildPackageList
    \/ RepoAdd
    \/ GitFetch
    \/ DiffCheck
    \/ ShowDiff
    \/ Merge
    \/ RepoRemove
    \/ ReadDir
    \/ Scan
    \/ Remove
    \/ Another

SpecSeries == InitSeries /\ [][NextSeries]_vars

----------------------------------------------------------------------------
(* A run of sync or update in which every call returns *)

InitOrchestrator == Init /\ op \in {"sync", "update"}

\* the steps of sync and update
NextOrchestrator ==
    \/ Main
    \/ UpdateNames
    \/ Fetch
    \/ Lookup
    \/ Render
    \/ Prompt
    \/ Proceed
    \/ NextBase
    \/ Clone
    \/ EditPKGBUILD
    \/ Makepkg
    \/ BuildPackageList
    \/ RepoAdd
    \/ GitFetch
    \/ DiffCheck
    \/ ShowDiff
    \/ Merge

\* every external command, network call and prompt returns, and the process
\* goes on to its next statement: a step that can be taken is taken
SpecOrchestrator ==
    InitOrchestrator /\ [][NextOrchestrator]_vars /\ WF_vars(NextOrchestrator)

----------------------------------------------------------------------------
(* Properties *)

\* the names of the records of a sequence
NamesOf(ps) == {ps[i].Name : i \in 1..Len(ps)}
\* the cache directory, the archive and pacman's database are as at the start
EntriesUntouched ==
    /\ cache = start.cache
    /\ archive = start.archive
    /\ installed = start.installed
\* the commands of the devel check, and the units it may inspect: those
\* owning a requested, installed package with the development suffix
InspectCmds == {"makepkg --nobuild", "makepkg --packagelist"}
DevelChecked(b) ==
    /\ devel
    /\ \E n \in Range(names) \cap DOMAIN installed :
         n \in {"lib-git", "libx-git"} /\ PackageBase(n) = b
\* the steps of the per-unit lifecycle
UnitCmds ==
    {"git clone", "git fetch", "git diff --quiet", "git merge", "prompt edit",
     "vim", "makepkg --force", "repo-add"}
\* the run ended because the user declined the top-level prompt
Declined ==
    /\ pc = "exit"
    /\ Len(log) > 0
    /\ log[Len(log)] = Ran("prompt proceed", "", 1)
\* the run went through every unit and returned
Completed == pc = "exit" /\ exitCode = 0 /\ msg.kind = "table"

\* C1: every reconciled record is in the outdated set if and only if force is
\* set or vercmp judges its remote version (after the devel override)
\* strictly newer than its local version.
C1_OutdatedIffForceOrNewer ==
    \A i \in 1..Len(seen) :
        (seen[i] \in Range(outdated))
            <=> (force \/ vercmp(seen[i].Version, seen[i].OldVersion) > 0)

C1_Witness ==
    /\ pc = "proceed"
    /\ ~force
    /\ \E i, j \in 1..Len(seen) :
         /\ seen[i] \in Range(outdated)
         /\ seen[i].Name \in DOMAIN installed
         /\ seen[j] \notin Range(outdated)

\* C2: when a requested name is missing from the registry's response, the run
\* ends with status 1 and a message naming every missing name, and nothing
\* but the registry fetch has happened.
C2_NotFoundListsAll ==
    LET absent == Range(names) \ Known
    IN  (pc \notin {"main", "names", "prepare"} /\ op # "clean"
            /\ absent # {} /\ msg.kind # "error")
          => /\ pc = "exit"
             /\ exitCode = 1
             /\ msg = Say("target not found", absent)
             /\ log = << Run("http-get", "") >>
             /\ seen = << >>
             /\ EntriesUntouched
             /\ mirror = start.mirror

C2_Witness ==
    /\ msg.kind = "target not found"
    /\ Cardinality(msg.names) = 2
    /\ Range(names) \cap Known # {}
    /\ pc = "exit"

\* C3: no step of the per-unit lifecycle runs twice for the same build unit,
\* and a completed run has built every unit of the outdated set exactly once
\* and no other unit.
C3_UnitProcessedOnce ==
    /\ \A b \in Bases, c \in UnitCmds : Count(c, b) <= 1
    /\ Completed =>
         \A b \in Bases :
            Count("makepkg --force", b) = IF b \in BasesOf(outdated) THEN 1 ELSE 0

C3_Witness ==
    /\ Completed
    /\ \E i, j \in 1..Len(outdated) :
         /\ i # j
         /\ outdated[i].PackageBase = outdated[j].PackageBase
         /\ Count("makepkg --force", outdated[i].PackageBase) = 1
         /\ Count("repo-add", outdated[i].PackageBase) = 1

\* C4 as stated: declining the top-level prompt ends the run with a non-zero
\* status, the cache directory (mirrors included), the archive and pacman's
\* database as at the start, and no build-tool command run before the prompt.
C4_Original ==
    Declined =>
        /\ exitCode # 0
        /\ EntriesUntouched
        /\ mirror = start.mirror
        /\ \A i \in 1..Len(log) : log[i].cmd \notin InspectCmds

\* C4 as amended: declining the top-level prompt ends the run with status 1,
\* the entries of the cache directory, the archive and pacman's database as
\* at the start; before the prompt only the registry fetch and the devel
\* check's source inspection have run, the latter only with the devel flag
\* and only in mirrors of units owning a requested installed development
\* package, and only those mirrors may differ from the start.
C4_DeclineKeepsAllButInspectedMirrors ==
    Declined =>
        /\ exitCode = 1
        /\ EntriesUntouched
        /\ \A b \in Bases : mirror[b] # start.mirror[b] => DevelChecked(b)
        /\ \A i \in 1..(Len(log) - 1) :
              \/ log[i] = Run("http-get", "")
              \/ log[i].cmd \in InspectCmds /\ DevelChecked(log[i].base)

C4_Witness ==
    /\ Declined
    /\ \E b \in Bases : mirror[b] # start.mirror[b]
    /\ \E b \in Bases : mirror[b] = start.mirror[b] /\ IsMirror(b)

\* C5 as stated: an empty outdated set ends the run with "nothing to do" and
\* status 0, without a prompt, and with nothing but the registry fetch done.
C5_Original ==
    msg.kind = "nothing to do" =>
        /\ pc = "exit"
        /\ exitCode = 0
        /\ log = << Run("http-get", "") >>
        /\ EntriesUntouched
        /\ mirror = start.mirror

\* C5 as amended: an empty outdated set ends the run with "nothing to do" and
\* status 0 without a prompt and without a version-control, editor or
\* archive command; no entry of the cache directory or the archive changes;
\* beyond the registry fetch only the devel check's source inspection has
\* run, with the devel flag, in mirrors of units owning a requested
\* installed development package, and only those mirrors may differ.
C5_NothingToDoRunsOnlyInspection ==
    msg.kind = "nothing to do" =>
        /\ pc = "exit"
        /\ exitCode = 0
        /\ EntriesUntouched
        /\ \A b \in Bases : mirror[b] # start.mirror[b] => DevelChecked(b)
        /\ \A i \in 1..Len(log) :
              \/ log[i] = Run("http-get", "")
              \/ log[i].cmd \in InspectCmds /\ DevelChecked(log[i].base)

C5_Witness ==
    /\ msg.kind = "nothing to do"
    /\ pc = "exit"
    /\ Len(seen) > 0
    /\ \E b \in Bases : mirror[b] # start.mirror[b]

\* C6 as stated: every command that ends with a non-zero status is the last
\* thing the run does, and the run ends with a non-zero status; only the
\* quiet diff-check ending with status 1 is exempt.
C6_Original ==
    \A i \in 1..Len(log) :
        (/\ log[i].cmd \notin {"prompt proceed", "prompt edit", "prompt diff"}
         /\ log[i].code # 0
         /\ ~(log[i].cmd = "git diff --quiet" /\ log[i].code = 1))
          => /\ i = Len(log)
             /\ pc = "exit"
             /\ exitCode # 0

\* C7: a unit that has been published keeps its archive entries and its
\* artifacts, whatever happens later in the run, a fatal failure included.
C7_BuiltUnitsKeepTheirEffect ==
    \A b \in Bases :
        done[b].built =>
            /\ EntriesOf(archive, b) = done[b].entries
            /\ \A n \in DOMAIN done[b].entries :
                  FileEntry(n, done[b].entries[n]) \in cache

C7_Witness ==
    /\ pc = "exit"
    /\ exitCode = 1
    /\ \E b \in Bases :
         /\ done[b].built
         /\ base # b
         /\ log[Len(log)].base = base
         /\ log[Len(log)].code # 0

\* C8 as stated: when every requested name exists upstream, prepare returns
\* exactly one package per requested name.
C8_Original ==
    pc = "proceed" =>
        /\ NamesOf(outdated) = Range(names)
        /\ Len(outdated) = Cardinality(Range(names))

\* C8 as amended: when every requested name exists upstream, prepare fetches
\* exactly one record per requested name and returns, without duplicates,
\* exactly the fetched records that are outdated (all of them under force);
\* every returned package was requested.
C8_OnePerOutdatedName ==
    pc = "proceed" =>
        /\ NamesOf(pkgs) = Range(names)
        /\ Len(pkgs) = Cardinality(Range(names))
        /\ Len(outdated) = Cardinality(NamesOf(outdated))
        /\ NamesOf(outdated) \subseteq Range(names)
        /\ force => NamesOf(outdated) = Range(names)
        /\ \A n \in Range(names) \ NamesOf(outdated) :
              \E i \in 1..Len(seen) :
                 /\ seen[i].Name = n
                 /\ vercmp(seen[i].Version, seen[i].OldVersion) <= 0

C8_Witness ==
    /\ pc = "proceed"
    /\ Len(outdated) = 2
    /\ Len(pkgs) = 3

\* C9 as stated: a record whose package is not installed is always in the
\* outdated set.
C9_Original ==
    \A i \in 1..Len(seen) :
        seen[i].Name \notin DOMAIN installed => seen[i] \in Range(outdated)

\* C10: a sweep that returns leaves exactly the prior entries whose name is
\* the base or the artifact filename of an installed package or begins with
\* the archive's prefix.
C10_CleanKeepsExactlyKeepSet ==
    (op = "clean" /\ pc = "exit" /\ exitCode = 0) =>
        cache = {e \in start.cache :
                    \/ \E n \in DOMAIN installed :
                          e.name = << PackageBase(n) >> \/ e.name = << n, installed[n] >>
                    \/ HasPrefixDb(e.name)}

C10_Witness ==
    /\ op = "clean"
    /\ pc = "exit"
    /\ exitCode = 0
    /\ DbEntry \in cache
    /\ \E e \in cache : e.dir
    /\ \E e \in start.cache \ cache : e.dir
    /\ \E e \in start.cache \ cache : ~e.dir

\* the run follows a sweep that returned
AfterSweep ==
    /\ op = "clean"
    /\ past # << >>
    /\ past[Len(past)].op = "clean"
    /\ past[Len(past)].exitCode = 0

\* C11: a sweep run right after a sweep that returned deletes nothing: at
\* every point of it, and when it ends, the cache directory holds exactly
\* the entries the first sweep left, and it finds no entry to delete.
C11_SecondSweepDeletesNothing ==
    AfterSweep => (cache = start.cache /\ garbage = << >>)

C11_Witness ==
    /\ AfterSweep
    /\ pc = "exit"
    /\ exitCode = 0
    /\ Cardinality(past[Len(past)].cache \ start.cache) >= 2
    /\ \E e \in cache : e.dir

\* the records are in the order of less: ascending popularity, ascending
\* votes among records of equal popularity
Ascending(ps) ==
    \A i \in 1..(Len(ps) - 1) :
        \/ ps[i].Popularity < ps[i + 1].Popularity
        \/ /\ ps[i].Popularity = ps[i + 1].Popularity
           /\ ps[i].NumVotes <= ps[i + 1].NumVotes

\* C12: search prints exactly the records the registry returned, by
\* ascending popularity and, among records of equal popularity, by ascending
\* vote count; a record of the highest popularity is printed last.
C12_SearchAscending ==
    (op = "search" /\ pc = "exit" /\ exitCode = 0) =>
        /\ Len(pkgs) = Len(results)
        /\ Range(pkgs) = Range(results)
        /\ Ascending(pkgs)
        /\ \A i \in 1..Len(pkgs) :
              pkgs[i].Popularity <= pkgs[Len(pkgs)].Popularity

C12_Witness ==
    /\ op = "search"
    /\ pc = "exit"
    /\ exitCode = 0
    /\ results = << Hit(1, 1, 5), Hit(2, 2, 1), Hit(3, 1, 2) >>
    /\ pkgs = << Hit(3, 1, 2), Hit(1, 1, 5), Hit(2, 2, 1) >>

\* the packages the last build of unit b produced, and their version
Produced(b) == Range(mirror[b].head.names)
ProducedVer(b) == mirror[b].pkgver

\* C13 as stated: once a unit is published, the archive's entries of the unit
\* are exactly the artifacts the build produced: every entry an earlier
\* build of the unit left and the new build does not produce again is gone.
C13_Original ==
    \A b \in Bases :
        done[b].built =>
            /\ done[b].entries = [n \in Produced(b) |-> ProducedVer(b)]
            /\ \A n \in DOMAIN EntriesOf(start.archive, b) :
                  (n \notin Produced(b) \/ start.archive[n] # ProducedVer(b))
                    => ~(n \in DOMAIN done[b].entries
                           /\ done[b].entries[n] = start.archive[n])

\* C13 as amended: once a unit is published, the archive holds, for every
\* package the build produced, exactly the new artifact, and the superseded
\* artifact file of that package is deleted; an entry of a package the
\* unit's recipe no longer produces stays as the earlier build left it.
C13_PublishReplacesByName ==
    \A b \in Bases :
        done[b].built =>
            LET old == EntriesOf(start.archive, b)
            IN  /\ DOMAIN done[b].entries = DOMAIN old \cup Produced(b)
                /\ \A n \in Produced(b) : done[b].entries[n] = ProducedVer(b)
                /\ \A n \in DOMAIN old \ Produced(b) : done[b].entries[n] = old[n]
                /\ \A n \in DOMAIN old \cap Produced(b) :
                      old[n] # ProducedVer(b) => FileEntry(n, old[n]) \notin cache

C13_Witness ==
    /\ done["lib-git"].built
    /\ Produced("lib-git") = {"lib-git"}
    /\ {"lib-git", "libx-git"} \subseteq DOMAIN start.archive
    /\ archive["lib-git"] # start.archive["lib-git"]
    /\ archive["libx-git"] = start.archive["libx-git"]

\* no package of the outdated set has a local version
NoneInstalled == \A i \in 1..Len(outdated) : outdated[i].OldVersion = Empty

\* C14: the table of a non-empty outdated set has no old-version column, in
\* the header and in every row, exactly when no package of the set has a
\* local version; otherwise the header names both version columns and every
\* row shows the package's local version and its new version.
C14_OldColumnIffSomeInstalled ==
    msg.kind = "table" =>
        /\ Len(msg.rows) = Len(outdated)
        /\ IF NoneInstalled
           THEN /\ msg.header = << "Package", "New Version" >>
                /\ \A i \in 1..Len(outdated) :
                      /\ Len(msg.rows[i]) = 2
                      /\ msg.rows[i][1] = outdated[i].Name
                      /\ msg.rows[i][2] = outdated[i].Version
           ELSE /\ msg.header = << "Package", "Old Version", "New Version" >>
                /\ \A i \in 1..Len(outdated) :
                      /\ Len(msg.rows[i]) = 3
                      /\ msg.rows[i][1] = outdated[i].Name
                      /\ msg.rows[i][2] = outdated[i].OldVersion
                      /\ msg.rows[i][3] = outdated[i].Version

C14_Witness ==
    /\ msg.kind = "table"
    /\ pc = "proceed"
    /\ Len(outdated) >= 2
    /\ NoneInstalled
    /\ Len(msg.header) = 2

\* a table that mixes a package to install with one to upgrade
C14_MixedTable ==
    /\ msg.kind = "table"
    /\ \E i, j \in 1..Len(outdated) :
         outdated[i].OldVersion = Empty /\ outdated[j].OldVersion # Empty
    /\ Len(msg.header) = 3

\* the steps of the lifecycle of unit b, in the order they ran: the entries
\* of the log for b after the top-level prompt
ProceedAt ==
    IF \E i \in 1..Len(log) : log[i].cmd = "prompt proceed"
    THEN CHOOSE i \in 1..Len(log) : log[i].cmd = "prompt proceed"
    ELSE Len(log)
UnitSteps(b) ==
    SelectSeq(SubSeq(log, ProceedAt + 1, Len(log)), LAMBDA e : e.base = b)
\* the steps are in the order of the ranks R gives their commands
InOrder(u, R(_)) ==
    \A i \in 1..(Len(u) - 1) : R(u[i].cmd) < R(u[i + 1].cmd)
\* command c ran for the unit, and succeeded
Has(u, c) == \E i \in 1..Len(u) : u[i].cmd = c
Succeeded(u, c) == \E i \in 1..Len(u) : u[i].cmd = c /\ u[i].code = 0

\* the order of the sync path: Clone, ReviewEdit, Build; 0: not a step of it
SyncRank(c) ==
    CASE c = "git clone" -> 1 [] c = "prompt edit" -> 2 [] c = "vim" -> 3
      [] c = "makepkg --force" -> 4 [] c = "makepkg --packagelist" -> 5
      [] c = "repo-add" -> 6 [] OTHER -> 0

\* the step just taken is the mirror check of sync, and it ran the clone
MirrorChecked == pc = "clone" /\ pc' # "clone"
CloneRan ==
    /\ Len(log') = Len(log) + 1
    /\ log'[Len(log')].cmd = "git clone"
    /\ log'[Len(log')].base = base

\* C15: in a sync run the steps of every unit are, in this order, Clone,
\* ReviewEdit and Build, each after the one before it succeeded; no fetch,
\* diff-check or merge runs; and the mirror check runs the clone exactly
\* when the unit's mirror directory is absent at that moment.
C15_SyncStepsInOrder ==
    /\ [](op = "sync" =>
            \A b \in Bases :
                LET u == UnitSteps(b)
                IN  /\ \A i \in 1..Len(u) : SyncRank(u[i].cmd) > 0
                    /\ InOrder(u, SyncRank)
                    /\ (Has(u, "git clone") /\ Len(u) > 1)
                          => Succeeded(u, "git clone")
                    /\ Has(u, "repo-add") => Succeeded(u, "makepkg --force"))
    /\ [][MirrorChecked => (CloneRan <=> ~IsMirror(base))]_vars

C15_Witness ==
    /\ op = "sync"
    /\ Completed
    /\ \E b, c \in Bases :
         /\ Has(UnitSteps(b), "git clone")
         /\ Has(UnitSteps(b), "vim")
         /\ Has(UnitSteps(b), "repo-add")
         /\ IsMirror(c)
         /\ DirEntry(c) \in start.cache
         /\ ~Has(UnitSteps(c), "git clone")
         /\ Has(UnitSteps(c), "repo-add")

\* the order of the update path: Fetch, DiffCheck, Merge, ReviewEdit, Build
UpdateRank(c) ==
    CASE c = "git fetch" -> 1 [] c = "git diff --quiet" -> 2
      [] c = "prompt diff" -> 3 [] c = "git diff" -> 4 [] c = "git merge" -> 5
      [] c = "prompt edit" -> 6 [] c = "vim" -> 7 [] c = "makepkg --force" -> 8
      [] c = "makepkg --packagelist" -> 9 [] c = "repo-add" -> 10
      [] OTHER -> 0

\* C16: in an update run the steps of every unit are, in this order, Fetch,
\* DiffCheck, Merge, ReviewEdit and Build: the diff-check and the merge run
\* only after the fetch succeeded, the review and the build only after the
\* merge succeeded and the diff-check ran, and no clone runs.
C16_UpdateStepsInOrder ==
    op = "update" =>
        \A b \in Bases :
            LET u == UnitSteps(b)
            IN  /\ \A i \in 1..Len(u) : UpdateRank(u[i].cmd) > 0
                /\ InOrder(u, UpdateRank)
                /\ Len(u) > 0 => u[1].cmd = "git fetch"
                /\ Len(u) > 1 => Succeeded(u, "git fetch")
                /\ Has(u, "git merge") => Has(u, "git diff --quiet")
                /\ \A c \in {"prompt edit", "vim", "makepkg --force", "repo-add"} :
                      Has(u, c) => Succeeded(u, "git merge")
                /\ (pc \in {"edit", "makepkg", "packagelist", "repo-add"} /\ base = b)
                      => Succeeded(u, "git merge")

C16_Witness ==
    /\ op = "update"
    /\ Completed
    /\ \E b \in Bases :
         /\ Has(UnitSteps(b), "git diff")
         /\ Succeeded(UnitSteps(b), "git merge")
         /\ Has(UnitSteps(b), "vim")
         /\ Succeeded(UnitSteps(b), "repo-add")

\* the version the build tool's source inspection resolves for package n:
\* what pkgver() of its unit computes from the sources now
Resolved(n) == vcs[PackageBase(n)]

\* C17 as stated: every reconciled record whose name has the development
\* suffix carries, under the devel flag, the version source inspection
\* resolves for that package; every other record carries the version the
\* registry published.
C17_Original ==
    \A i \in 1..Len(seen) :
        seen[i].Version =
            IF devel /\ HasSuffixGit(seen[i].Name)
            THEN Resolved(seen[i].Name)
            ELSE remote[seen[i].Name]

\* C18: the editor is started exactly when the noedit flag is not set and
\* the user confirms the edit prompt of the unit: every start of the editor
\* follows a confirmed edit prompt of the same unit, every confirmed edit
\* prompt is followed by the editor, and without the flag every unit is
\* asked before it is built; with the flag no edit prompt is put and the
\* editor never starts; after a declined edit prompt the build of the unit
\* is the next step.
C18_EditorIffAskedAndConfirmed ==
    /\ \A i \in 1..Len(log) :
          /\ log[i].cmd = "vim" =>
                /\ ~noedit
                /\ i > 1
                /\ log[i - 1] = Run("prompt edit", log[i].base)
          /\ log[i] = Run("prompt edit", log[i].base) =>
                /\ i < Len(log)
                /\ log[i + 1].cmd = "vim"
                /\ log[i + 1].base = log[i].base
          /\ log[i] = Ran("prompt edit", log[i].base, 1) =>
                IF i = Len(log)
                THEN pc = "makepkg" /\ base = log[i].base
                ELSE /\ log[i + 1].cmd = "makepkg --force"
                     /\ log[i + 1].base = log[i].base
          /\ log[i].cmd = "prompt edit" => ~noedit
    /\ asked.q = "prompt edit" => ~noedit
    /\ \A b \in Bases :
          (Has(UnitSteps(b), "makepkg --force") /\ ~noedit)
            => Has(UnitSteps(b), "prompt edit")

C18_Witness ==
    /\ Completed
    /\ \E i, j \in 1..Len(log) :
         /\ log[i].cmd = "vim"
         /\ log[i].code = 0
         /\ log[j] = Ran("prompt edit", log[j].base, 1)
         /\ Succeeded(UnitSteps(log[j].base), "repo-add")

\* with the noedit flag two units are built without a question
C18_NoEditRun ==
    /\ Completed
    /\ noedit
    /\ \A b \in Bases : Succeeded(UnitSteps(b), "repo-add")

\* the step just taken is a caller acting on what prompt returned
Answered == asked # NotAsked /\ asked' = NotAsked

\* C19: each of the three prompts (proceed, edit recipe, show diff) returns
\* true exactly when the answer read is empty, "y" or "Y", and false for
\* every other answer; its caller goes on as confirmed or as declined
\* accordingly.
C19_PromptYesIffEmptyOrY ==
    /\ [](asked # NotAsked =>
            /\ asked.q \in {"prompt proceed", "prompt edit", "prompt diff"}
            /\ asked.yes <=> asked.ans \in {"", "y", "Y"})
    /\ [][Answered =>
            /\ Len(log') > Len(log)
            /\ log'[Len(log) + 1].cmd = asked.q
            /\ log'[Len(log) + 1].code = 0 <=> asked.ans \in {"", "y", "Y"}]_vars

C19_Witness ==
    /\ asked.q = "prompt diff"
    /\ asked.ans = ""
    /\ asked.yes
    /\ \E i \in 1..Len(log) : log[i] = Ran("prompt edit", log[i].base, 1)
    /\ \E i \in 1..Len(log) : log[i] = Run("prompt proceed", "")

\* the step after entry i of the log is the merge of the same unit
ThenMerge(i) ==
    IF i = Len(log)
    THEN pc = "merge" /\ base = log[i].base
    ELSE log[i + 1].cmd = "git merge" /\ log[i + 1].base = log[i].base

\* C20: the diff is displayed exactly when the quiet diff-check of the unit
\* ended with status 1 and the user confirmed the show-diff prompt: the
\* prompt is put after status 1 and after no other status, status 1 means
\* the heads differ, a confirmed prompt is followed by the display and the
\* display follows nothing else; after a display that succeeded, after a
\* declined prompt and after a diff-check with another status the next
\* step is the merge of the unit.
C20_DiffShownIffDiffersAndConfirmed ==
    /\ \A i \in 1..Len(log) :
          /\ log[i].cmd = "git diff" =>
                /\ i > 2
                /\ log[i - 1] = Run("prompt diff", log[i].base)
                /\ log[i - 2] = Ran("git diff --quiet", log[i].base, 1)
                /\ log[i].code = 0 => ThenMerge(i)
          /\ log[i].cmd = "prompt diff" =>
                /\ i > 1
                /\ log[i - 1] = Ran("git diff --quiet", log[i].base, 1)
                /\ IF log[i].code = 0
                   THEN /\ i < Len(log)
                        /\ log[i + 1].cmd = "git diff"
                        /\ log[i + 1].base = log[i].base
                   ELSE ThenMerge(i)
          /\ log[i].cmd = "git diff --quiet" =>
                IF log[i].code = 1
                THEN IF i = Len(log)
                     THEN pc = "show" /\ base = log[i].base
                     ELSE /\ log[i + 1].cmd = "prompt diff"
                          /\ log[i + 1].base = log[i].base
                ELSE ThenMerge(i)
    /\ pc = "show" => mirror[base].head # mirror[base].fetchHead
    /\ asked.q = "prompt diff" => pc = "show"

C20_Witness ==
    /\ op = "update"
    /\ Completed
    /\ \E i, j \in 1..Len(log) :
         /\ log[i].cmd = "git diff"
         /\ log[i].code = 0
         /\ log[j] = Run("git diff --quiet", log[j].base)
         /\ Succeeded(UnitSteps(log[i].base), "git merge")
         /\ Succeeded(UnitSteps(log[j].base), "git merge")

\* a run in which the user declined to see the diff and the unit was merged
C20_Declined ==
    /\ \E i \in 1..Len(log) :
         /\ log[i] = Ran("prompt diff", log[i].base, 1)
         /\ Succeeded(UnitSteps(log[i].base), "git merge")

\* the run passed the top-level confirmation
Confirmed == \E i \in 1..Len(log) : log[i] = Run("prompt proceed", "")
\* unit b is in the terminal state Built: its build and its publish succeeded
Built(b) == done[b].built

C21_Aborted ==
    /\ pc = "exit"
    /\ exitCode = 1
    /\ Confirmed
    /\ \E b, c \in BasesOf(outdated) : Built(b) /\ ~Built(c)

\* the archive references no artifact that is missing from the cache
NoDanglingEntry == \A n \in DOMAIN archive : FileEntry(n, archive[n]) \in cache

\* C22 as stated: after any series of completed sync, update, remove and
\* clean operations, pacman's database changing only by refreshes between
\* them, the file of every artifact the archive references is in the cache
\* directory.
C22_Original ==
    (pc = "exit" /\ exitCode = 0) => NoDanglingEntry

\* C23: an update run clones nothing and creates no mirror directory; a
\* unit whose mirror directory is missing has, once the loop reaches it, the
\* fetch as its only step, the fetch fails and is the last thing the run
\* does, the run ends with status 1, and neither that unit nor a unit not
\* yet processed is merged, edited, built or published: their archive
\* entries and the files of the cache directory are as before that unit.
C23_UpdateNeverClones ==
    op = "update" =>
        /\ \A i \in 1..Len(log) : log[i].cmd # "git clone"
        /\ \A b \in Bases : IsMirror(b) <=> DirEntry(b) \in start.cache
        /\ \A b \in Bases :
              ~IsMirror(b) =>
                 LET u == UnitSteps(b)
                 IN  /\ (base = b /\ pc # "exit") => (pc = "fetch" /\ u = << >>)
                     /\ Len(u) <= 1
                     /\ ~Built(b)
                     /\ EntriesOf(archive, b) = EntriesOf(start.archive, b)
                     /\ Len(u) = 1 =>
                           /\ u[1] = Ran("git fetch", b, 1)
                           /\ log[Len(log)] = u[1]
                           /\ pc = "exit"
                           /\ exitCode = 1
                           /\ \A c \in Range(bases) :
                                 /\ UnitSteps(c) = << >>
                                 /\ ~Built(c)
                                 /\ EntriesOf(archive, c) = EntriesOf(start.archive, c)
                                 /\ mirror[c].head = start.mirror[c].head

C23_Witness ==
    /\ op = "update"
    /\ pc = "exit"
    /\ ~IsMirror(base)
    /\ UnitSteps(base) = << Ran("git fetch", base, 1) >>
    /\ bases # << >>
    /\ \A c \in Range(bases) : IsMirror(c)

\* the unit with the missing mirror is reached after another unit was built
C23_AfterBuilt ==
    /\ op = "update"
    /\ pc = "exit"
    /\ ~IsMirror(base)
    /\ UnitSteps(base) = << Ran("git fetch", base, 1) >>
    /\ \E c \in Bases : Built(c)

\* the arguments parser has gone through
Parsed == 1..(argi - 1)
\* the arguments that do not begin with "-", in order
Operands == SelectSeq(argv, LAMBDA a : ~HasPrefixDash(a))

\* C24 as stated: a flag is set only if its exact option has been parsed,
\* usage is printed only for --help, every other argument beginning with
\* "-" ends the run with the invalid option error, and a command line
\* parsed to its end yields its first argument without "-" as the operation
\* and the remaining ones, in order, as the targets.
C24_Original ==
    /\ devel => \E i \in Parsed : argv[i] = Opt("devel")
    /\ force => \E i \in Parsed : argv[i] = Opt("force")
    /\ noedit => \E i \in Parsed : argv[i] = Opt("noedit")
    /\ msg.kind = "usage" => argv[argi - 1] = Opt("help")
    /\ \A i \in Parsed :
          (/\ HasPrefixDash(argv[i])
           /\ argv[i] \notin {Opt(w) : w \in {"devel", "force", "noedit", "help"}})
            => /\ pc = "exit"
               /\ exitCode # 0
               /\ msg = Say("invalid option", {argv[i]})
    /\ pc = "main" =>
          /\ Operands # << >>
          /\ op = Text(Operands[1])
          /\ names = [i \in 1..(Len(Operands) - 1) |-> Text(Operands[i + 1])]

====
